---- MODULE Spec2Model ----
(***************************************************************************)
(* A model of schema.py (SCHEMA: automated product taxonomy mapping).      *)
(*                                                                         *)
(* Python strings are sequences of one-character strings, so that          *)
(* splitting, lower-casing, substring containment and edit distances are   *)
(* computed character by character as the code computes them.  A key       *)
(* unichr(n) is the natural number n (unichr is injective); the unset key  *)
(* None is -1.  A float similarity 1 - d/m is compared to a threshold      *)
(* num/den by cross-multiplication of integers.                            *)
(***************************************************************************)
EXTENDS Integers, Sequences, FiniteSets, TLC

\* ---------------------------------------------------------------------------
\* Bounds of the model
\* ---------------------------------------------------------------------------
MaxSrcLen == 3
MaxCandLen == 2
MaxSharedLen == 2
MaxKeyPathLen == 3
MaxKeySym == 2
MaxTermSet == 2
MaxChildren == 1

None == -1

\* ---------------------------------------------------------------------------
\* String data the inputs are drawn from
\* ---------------------------------------------------------------------------
L_Empty == << >>
L_Cheese == <<"C","h","e","e","s","e">>
L_Milk == <<"M","i","l","k">>
L_MilkAndCheese == <<"M","i","l","k"," ","&"," ","C","h","e","e","s","e">>
L_CottageCheese == <<"C","o","t","t","a","g","e"," ","C","h","e","e","s","e">>
L_CheesesMilk == <<"C","h","e","e","s","e","s",","," ","M","i","l","k">>
L_MilksAndTofu == <<"M","i","l","k","s"," ","a","n","d"," ","T","o","f","u">>
L_CheeseAndTofu == <<"C","h","e","e","s","e"," ","&"," ","T","o","f","u">>
L_Dairy == <<"D","a","i","r","y">>
L_Tofu == <<"T","o","f","u">>
L_Bread == <<"B","r","e","a","d">>
L_Soy == <<"S","o","y">>
t_cheese == <<"c","h","e","e","s","e">>
t_milk == <<"m","i","l","k">>
t_milks == <<"m","i","l","k","s">>
t_chese == <<"c","h","e","s","e">>
t_cheeses == <<"c","h","e","e","s","e","s">>
t_cottage_cheese == <<"c","o","t","t","a","g","e"," ","c","h","e","e","s","e">>
t_tofu == <<"t","o","f","u">>
t_bean_curd == <<"b","e","a","n","_","c","u","r","d">>
t_tall_mallow == <<"t","a","l","l","_","m","a","l","l","o","w">>
g_cheese == <<"d","a","i","r","y"," ","f","o","o","d">>
g_mallow == <<"t","a","l","l"," ","p","l","a","n","t">>
g_milk == <<"d","a","i","r","y"," ","m","i","l","k">>
g_tofu == <<"s","o","y"," ","c","u","r","d">>
g_food == <<"s","o","l","i","d">>

\* ---------------------------------------------------------------------------
\* Utility functions
\* ---------------------------------------------------------------------------
Min2(a, b) == IF a <= b THEN a ELSE b
Max2(a, b) == IF a >= b THEN a ELSE b

UpperChars == <<"A","B","C","D","E","F","G","H","I","J","K","L","M",
                "N","O","P","Q","R","S","T","U","V","W","X","Y","Z">>
LowerChars == <<"a","b","c","d","e","f","g","h","i","j","k","l","m",
                "n","o","p","q","r","s","t","u","v","w","x","y","z">>

\* str.lower(), one character
LowerChar(c) ==
    IF \E k \in 1..Len(UpperChars) : UpperChars[k] = c
    THEN LowerChars[CHOOSE k \in 1..Len(UpperChars) : UpperChars[k] = c]
    ELSE c

\* str.lower()
Lower(s) == [k \in 1..Len(s) |-> LowerChar(s[k])]

\* s[k:k+len(sep)] == sep
MatchesAt(s, k, sep) ==
    /\ k + Len(sep) - 1 <= Len(s)
    /\ SubSeq(s, k, k + Len(sep) - 1) = sep

\* the alternatives of the pattern ', | & | and ', in the order re tries them
Separators == << <<","," ">>, <<" ","&"," ">>, <<" ","a","n","d"," ">> >>

\* length of the separator matching at k (0 when none matches)
SepLenAt(s, k) ==
    IF MatchesAt(s, k, Separators[1]) THEN Len(Separators[1])
    ELSE IF MatchesAt(s, k, Separators[2]) THEN Len(Separators[2])
    ELSE IF MatchesAt(s, k, Separators[3]) THEN Len(Separators[3])
    ELSE 0

\* re.split: the pieces between the leftmost non-overlapping matches
RECURSIVE ReSplit(_, _, _)
ReSplit(s, start, k) ==
    IF k > Len(s) THEN << SubSeq(s, start, Len(s)) >>
    ELSE IF SepLenAt(s, k) > 0
         THEN << SubSeq(s, start, k - 1) >>
              \o ReSplit(s, k + SepLenAt(s, k), k + SepLenAt(s, k))
         ELSE ReSplit(s, start, k + 1)

\* _split_composite(w)
SplitComposite(w) ==
    LET m == ReSplit(w, 1, 1)
    IN  { Lower(m[k]) : k \in 1..Len(m) }

\* wb in wa
ContainsAsSeparateComponent(wa, wb) ==
    \E k \in 1..(Len(wa) + 1) : MatchesAt(wa, k, wb)

\* one row of the edit-distance table, built left to right: acc holds the
\* entries 0..Len(acc)-1 of the row of character ch, prev the row above
RECURSIVE LevRow(_, _, _, _)
LevRow(prev, ch, t, acc) ==
    LET j == Len(acc)
    IN  IF j > Len(t) THEN acc
        ELSE LET cost == IF t[j] = ch THEN 0 ELSE 1
                 v == Min2(Min2(prev[j + 1] + 1, acc[j] + 1), prev[j] + cost)
             IN  LevRow(prev, ch, t, Append(acc, v))

\* the rows of the table, top to bottom: rows holds rows 0..Len(rows)-1
RECURSIVE LevRows(_, _, _)
LevRows(s, t, rows) ==
    LET i == Len(rows)
    IN  IF i > Len(s) THEN rows[i]
        ELSE LevRows(s, t,
                 Append(rows, LevRow(rows[i], s[i], t, << rows[i][1] + 1 >>)))

\* Levenshtein.distance(s, t): insertions, deletions, substitutions
LevenshteinDistance(s, t) ==
    LevRows(s, t, << [j \in 1..(Len(t) + 1) |-> j - 1] >>)[Len(t) + 1]

\* longest run of consecutive characters common to s1 and s2 ending at (x, y)
RECURSIVE CommonRun(_, _, _, _)
CommonRun(s1, s2, x, y) ==
    IF x < 1 \/ y < 1 THEN 0
    ELSE IF s1[x] = s2[y] THEN 1 + CommonRun(s1, s2, x - 1, y - 1)
    ELSE 0

SetMax(S) == IF S = {} THEN 0 ELSE CHOOSE m \in S : \A n \in S : n <= m

\* _longest_common_substring(wa, wb) as the fraction <<len(lcs), len(s1)>>
LongestCommonSubstring(wa, wb) ==
    LET s1 == IF Len(wa) > Len(wb) THEN wa ELSE wb
        s2 == IF Len(wa) > Len(wb) THEN wb ELSE wa
        longest == SetMax({ CommonRun(s1, s2, x, y) :
                              x \in 1..Len(s1), y \in 1..Len(s2) })
    IN  << longest, Len(s1) >>

\* exact arithmetic on the non-negative fractions <<n, d>> that stand for floats
RECURSIVE Gcd(_, _)
Gcd(a, b) == IF b = 0 THEN a ELSE Gcd(b, a % b)
FracNorm(f) ==
    LET g == Gcd(f[1], f[2])
    IN  IF g = 0 THEN f ELSE << f[1] \div g, f[2] \div g >>
FracAdd(f, g) == FracNorm(<< f[1] * g[2] + g[1] * f[2], f[2] * g[2] >>)
FracGreater(f, g) == f[1] * g[2] > g[1] * f[2]

\* ---------------------------------------------------------------------------
\* The lexical knowledge base (WordNet), consumed read-only
\* ---------------------------------------------------------------------------
Synsets == { "cheese.n.01", "cheese.n.02", "milk.n.01", "tofu.n.01", "food.n.01" }

\* Synset.lemmas(), each lemma's name()
LemmaNames(S) ==
    CASE S = "cheese.n.01" -> << t_cheese >>
      [] S = "cheese.n.02" -> << t_tall_mallow, t_cheese >>
      [] S = "milk.n.01" -> << t_milk >>
      [] S = "tofu.n.01" -> << t_tofu, t_bean_curd >>
      [] OTHER -> << <<"f","o","o","d">> >>

\* Synset.definition()
Definition(S) ==
    CASE S = "cheese.n.01" -> g_cheese
      [] S = "cheese.n.02" -> g_mallow
      [] S = "milk.n.01" -> g_milk
      [] S = "tofu.n.01" -> g_tofu
      [] OTHER -> g_food

Hypernyms(S) ==
    IF S \in { "cheese.n.01", "milk.n.01", "tofu.n.01" } THEN << "food.n.01" >>
    ELSE << >>
Hyponyms(S) ==
    IF S = "food.n.01" THEN << "cheese.n.01", "milk.n.01", "tofu.n.01" >>
    ELSE << >>
PartMeronyms(S) == IF S = "cheese.n.01" THEN << "milk.n.01" >> ELSE << >>
PartHolonyms(S) == IF S = "milk.n.01" THEN << "cheese.n.01" >> ELSE << >>

\* the terms wn.synsets is asked about, and the sense lists it may answer
KBTerms == { t_cheese, t_milk, t_tofu }
SenseLists ==
    { << >>, << "cheese.n.01" >>, << "cheese.n.02", "cheese.n.01" >>,
      << "milk.n.01" >>, << "tofu.n.01" >> }
KnowledgeBases == [ KBTerms -> SenseLists ]

\* WordNet as the source nodes of the key path generator see it
WordNet ==
    [ w \in KBTerms |->
        CASE w = t_cheese -> << "cheese.n.02", "cheese.n.01" >>
          [] w = t_milk -> << "milk.n.01" >>
          [] OTHER -> << >> ]

\* ---------------------------------------------------------------------------
\* Find Source Category's Extended Split Term Set
\* ---------------------------------------------------------------------------
SeqToSet(q) == { q[k] : k \in 1..Len(q) }

\* ExtendedSplitTermSet.get_synsets(w)
GetSynsets(kb, w) == IF w \in DOMAIN kb THEN kb[w] ELSE << >>

\* ExtendedSplitTermSet.get_related(S)
GetRelated(S) ==
    << S >> \o Hypernyms(S) \o Hyponyms(S) \o PartMeronyms(S) \o PartHolonyms(S)

\* ExtendedSplitTermSet.get_gloss(S)
GetGloss(S) == Definition(S)

\* the inner loop of disambiguate: sensescore summed over product(r, Wcontext)
RECURSIVE SenseScore(_, _)
SenseScore(pairs, sensescore) ==
    IF pairs = {} THEN sensescore
    ELSE LET p == CHOOSE x \in pairs : TRUE
         IN  SenseScore(pairs \ {p},
                 FracAdd(sensescore,
                         LongestCommonSubstring(GetGloss(p[1]), p[2])))

\* the outer loop of disambiguate over the senses z[k..], in list order
RECURSIVE DisambiguateLoop(_, _, _, _, _)
DisambiguateLoop(z, k, Wcontext, bestscore, bestsynset) ==
    IF k > Len(z) THEN bestsynset
    ELSE LET r == SeqToSet(GetRelated(z[k]))
             sensescore == SenseScore(r \X Wcontext, << 0, 1 >>)
         IN  IF FracGreater(sensescore, bestscore)
             THEN DisambiguateLoop(z, k + 1, Wcontext, sensescore, z[k])
             ELSE DisambiguateLoop(z, k + 1, Wcontext, bestscore, bestsynset)

\* ExtendedSplitTermSet.disambiguate(w, Wcontext); "None" when no sense is best
Disambiguate(kb, w, Wcontext) ==
    DisambiguateLoop(GetSynsets(kb, w), 1, Wcontext, << 0, 1 >>, "None")

\* one iteration of the loop of split_terms over Wcategory
ExtendTerm(kb, wsrcSplit, Wcontext) ==
    LET extendedTermSet == Disambiguate(kb, wsrcSplit, Wcontext)
    IN  IF extendedTermSet # "None"
        THEN SeqToSet(LemmaNames(extendedTermSet)) \cup { wsrcSplit }
        ELSE {}

\* ExtendedSplitTermSet(wcategory, wparent, Wchildren).split_terms();
\* wparent is a sequence of at most one label (empty: no parent)
SplitTerms(kb, wcategory, wparent, Wchildren) ==
    LET Wcategory == SplitComposite(wcategory)
        Wparent == IF wparent # << >> /\ wparent[1] # << >>
                   THEN SplitComposite(wparent[1]) ELSE {}
        Wchild == UNION { SplitComposite(Wchildren[k]) : k \in 1..Len(Wchildren) }
        Wcontext == Wchild \cup Wparent
    IN  UNION { ExtendTerm(kb, wsrcSplit, Wcontext) : wsrcSplit \in Wcategory }

\* ---------------------------------------------------------------------------
\* Semantic Match
\* ---------------------------------------------------------------------------
\* similarity >= tnode, for similarity = 1 - edit_dist / max(len, len) and
\* tnode the fraction <<num, den>>
SimilarityAtLeast(wsrcSplitSyn, wtargetSplit, tnode) ==
    LET edit_dist == LevenshteinDistance(wsrcSplitSyn, wtargetSplit)
        longer == Max2(Len(wsrcSplitSyn), Len(wtargetSplit))
    IN  (longer - edit_dist) * tnode[2] >= tnode[1] * longer

\* the body of the loop over product([SsrcSplit], Wtarget)
RECURSIVE MatchFoundLoop(_, _, _, _)
MatchFoundLoop(SsrcSplit, Wtarget, tnode, matchFound) ==
    IF Wtarget = {} THEN matchFound
    ELSE LET wtargetSplit == CHOOSE t \in Wtarget : TRUE
             found == IF ContainsAsSeparateComponent(SsrcSplit, wtargetSplit)
                      THEN TRUE
                      ELSE IF SimilarityAtLeast(SsrcSplit, wtargetSplit, tnode)
                      THEN TRUE
                      ELSE matchFound
         IN  MatchFoundLoop(SsrcSplit, Wtarget \ {wtargetSplit}, tnode, found)

\* the loop over E
RECURSIVE SubSetOfLoop(_, _, _, _)
SubSetOfLoop(E, Wtarget, tnode, subSetOf) ==
    IF E = {} THEN subSetOf
    ELSE LET SsrcSplit == CHOOSE e \in E : TRUE
             matchFound == MatchFoundLoop(SsrcSplit, Wtarget, tnode, FALSE)
         IN  SubSetOfLoop(E \ {SsrcSplit}, Wtarget, tnode,
                          IF matchFound = FALSE THEN FALSE ELSE subSetOf)

\* match without the guard "if not E: return False"
SemanticMatchEmptyTrue(E, wtarget, tnode) ==
    SubSetOfLoop(E, SplitComposite(wtarget), tnode, TRUE)

\* SemanticMatcher.match(E, wtarget, tnode)
SemanticMatch(E, wtarget, tnode) ==
    IF E = {} THEN FALSE
    ELSE SubSetOfLoop(E, SplitComposite(wtarget), tnode, TRUE)

\* ---------------------------------------------------------------------------
\* Candidate Target Key Path Ranker
\* ---------------------------------------------------------------------------
\* one row of the optimal-string-alignment table (edits and adjacent swaps):
\* acc holds the entries 0..Len(acc)-1 of row i, prev and prev2 the rows above
RECURSIVE OsaRow(_, _, _, _, _, _)
OsaRow(prev2, prev, s, i, t, acc) ==
    LET j == Len(acc)
    IN  IF j > Len(t) THEN acc
        ELSE LET cost == IF t[j] = s[i] THEN 0 ELSE 1
                 edit == Min2(Min2(prev[j + 1] + 1, acc[j] + 1), prev[j] + cost)
                 swap == IF i > 1 /\ j > 1 /\ s[i] = t[j - 1] /\ s[i - 1] = t[j]
                         THEN Min2(edit, prev2[j - 1] + 1)
                         ELSE edit
             IN  OsaRow(prev2, prev, s, i, t, Append(acc, swap))

\* the rows of the table, top to bottom: rows holds rows 0..Len(rows)-1
RECURSIVE OsaRows(_, _, _)
OsaRows(s, t, rows) ==
    LET i == Len(rows)
    IN  IF i > Len(s) THEN rows[i]
        ELSE OsaRows(s, t,
                 Append(rows, OsaRow(IF i > 1 THEN rows[i - 1] ELSE rows[i],
                                     rows[i], s, i, t, << rows[i][1] + 1 >>)))

\* damerau_levenshtein_distance(s, t) of pyxdameraulevenshtein
DamerauLevenshteinDistance(s, t) ==
    OsaRows(s, t, << [j \in 1..(Len(t) + 1) |-> j - 1] >>)[Len(t) + 1]

\* rank with the edit distance left out of a
RankPenaltyOnly(src, tgt) ==
    LET p == Cardinality({ tgt[k] : k \in 1..Len(tgt) } \ { src[k] : k \in 1..Len(src) })
        longer == Max2(Len(src), Len(tgt))
        b == longer + p
    IN  << b * longer - p * longer, b * longer >>

\* KeyPathRanker.rank(src, tgt), the score as the fraction <<num, den>>:
\* a = dist/longer + p, b = longer + p, candidateScore = 1 - a/b
Rank(src, tgt) ==
    LET p == Cardinality(SeqToSet(tgt) \ SeqToSet(src))
        longer == Max2(Len(src), Len(tgt))
        a == << DamerauLevenshteinDistance(src, tgt) + p * longer, longer >>
        b == longer + p
    IN  << b * a[2] - a[1], b * a[2] >>

\* ---------------------------------------------------------------------------
\* State
\* ---------------------------------------------------------------------------
VARIABLES
    call,             \* the arguments of the pure function under check
    ret,              \* its result: [done, value]
    source_path,      \* the SourceNode objects of the source path, in order
    skey,             \* skey[n]: the key field of source node n
    cnodes,           \* cnodes[p]: the wtarget of each CandidateNode of Path p
    ckey,             \* ckey[p][n]: the key field of candidate node n of Path p
    gen,              \* gen[g]: the fields and position of KeyPathGenerator g
    last              \* the key assignment made by the latest step

vars == << call, ret, source_path, skey, cnodes, ckey, gen, last >>

Generators == { 1, 2 }
PathIds == { 1, 2 }

\* sequences over S of length lo..hi
SeqsBetween(S, lo, hi) == UNION { [1..n -> S] : n \in lo..hi }

\* ---------------------------------------------------------------------------
\* Candidate Target Path Key Comparison: the path model
\* ---------------------------------------------------------------------------
\* SourceNode(wcategory, wparent, Wchildren): split_terms is computed once,
\* in the constructor, from WordNet
SourceNode(wcategory, wparent, Wchildren) ==
    [ wcategory |-> wcategory, wparent |-> wparent, Wchildren |-> Wchildren,
      split_terms |-> SplitTerms(WordNet, wcategory, wparent, Wchildren) ]

\* SourceNode.__eq__
SourceNodeEq(a, b) == a.split_terms = b.split_terms

\* the source nodes and candidate labels the paths are built from
SourceNodes ==
    { SourceNode(L_Cheese, << L_Dairy >>, << >>),
      SourceNode(L_Milk, << L_Dairy >>, << >>),
      SourceNode(L_Cheese, << >>, << >>) }
CandidateLabels == { L_MilkAndCheese, L_Bread }

\* self.tnode = 0.8
Tnode == << 4, 5 >>

\* SourceNode.matches_candidate(candidate_node, tnode) for every pair of a
\* term set and a label, evaluated once
MatchTable ==
    [ E \in { n.split_terms : n \in SourceNodes }, l \in CandidateLabels |->
        SemanticMatch(E, l, Tnode) ]
MatchesCandidate(a, wtarget, tnode) ==
    IF tnode = Tnode THEN MatchTable[a.split_terms, wtarget]
    ELSE SemanticMatch(a.split_terms, wtarget, tnode)

\* ---------------------------------------------------------------------------
\* KeyPathGenerator, one step at a time.  A step maps a world
\* [skey, ckey, self, last] to the next one; self holds the instance's fields
\* and the position of its loops (i, j count from 1).
\* ---------------------------------------------------------------------------
NoAssign == [ kind |-> "none", prev |-> None ]

\* KeyPathGenerator.__init__, up to the call of _key_source_path
NewGenerator(candidate_paths) ==
    [ pc |-> "key_source_outer", candidate_paths |-> candidate_paths,
      matched_candidate_paths |-> {}, node_key_counter |-> 0, tnode |-> Tnode,
      i |-> 1, j |-> 1, todo |-> {}, cur |-> 0,
      result |-> [ source_key_path |-> << >>, keyed_paths |-> << >>,
                   matched_paths |-> << >> ] ]
Idle == [ NewGenerator(<< >>) EXCEPT !.pc = "idle" ]

\* _key_source_path: the head of the loop over a and the keying of node 0
KeySourceOuterStep(w) ==
    LET s == w.self
    IN  IF s.i > Len(source_path)
        THEN [ w EXCEPT !.self.pc = "match_candidate_paths", !.last = NoAssign ]
        ELSE IF s.i = 1 /\ w.skey[1] = None
        THEN [ w EXCEPT !.skey[1] = s.node_key_counter,
                        !.self.node_key_counter = s.node_key_counter + 1,
                        !.self.j = s.i + 1,
                        !.self.pc = "key_source_inner",
                        !.last = [ kind |-> "fresh", prev |-> w.skey[1] ] ]
        ELSE [ w EXCEPT !.self.j = s.i + 1, !.self.pc = "key_source_inner",
                        !.last = NoAssign ]

\* the inner loop inheriting a.key only when b.key is None
KeySourceInnerStepKeepKey(w) ==
    LET s == w.self
    IN  IF s.j > Len(source_path)
        THEN [ w EXCEPT !.self.i = s.i + 1, !.self.pc = "key_source_outer",
                        !.last = NoAssign ]
        ELSE IF SourceNodeEq(source_path[s.i], source_path[s.j])
        THEN IF w.skey[s.j] = None
             THEN [ w EXCEPT !.skey[s.j] = w.skey[s.i],
                             !.self.i = s.i + 1, !.self.pc = "key_source_outer",
                             !.last = [ kind |-> "inherit", prev |-> w.skey[s.j] ] ]
             ELSE [ w EXCEPT !.self.i = s.i + 1, !.self.pc = "key_source_outer",
                             !.last = NoAssign ]
        ELSE IF w.skey[s.j] = None
        THEN [ w EXCEPT !.skey[s.j] = s.node_key_counter,
                        !.self.node_key_counter = s.node_key_counter + 1,
                        !.self.j = s.j + 1,
                        !.last = [ kind |-> "fresh", prev |-> w.skey[s.j] ] ]
        ELSE [ w EXCEPT !.self.j = s.j + 1, !.last = NoAssign ]

\* the inner loop allocating a key without the test "if b.key is None"
KeySourceInnerStepUnguarded(w) ==
    LET s == w.self
    IN  IF s.j > Len(source_path)
        THEN [ w EXCEPT !.self.i = s.i + 1, !.self.pc = "key_source_outer",
                        !.last = NoAssign ]
        ELSE IF SourceNodeEq(source_path[s.i], source_path[s.j])
        THEN [ w EXCEPT !.skey[s.j] = w.skey[s.i],
                        !.self.i = s.i + 1, !.self.pc = "key_source_outer",
                        !.last = [ kind |-> "inherit", prev |-> w.skey[s.j] ] ]
        ELSE [ w EXCEPT !.skey[s.j] = s.node_key_counter,
                        !.self.node_key_counter = s.node_key_counter + 1,
                        !.self.j = s.j + 1,
                        !.last = [ kind |-> "fresh", prev |-> w.skey[s.j] ] ]

\* _key_source_path: one iteration of the loop over b in source_path[i+1:]
KeySourceInnerStep(w) ==
    LET s == w.self
    IN  IF s.j > Len(source_path)
        THEN [ w EXCEPT !.self.i = s.i + 1, !.self.pc = "key_source_outer",
                        !.last = NoAssign ]
        ELSE IF SourceNodeEq(source_path[s.i], source_path[s.j])
        THEN [ w EXCEPT !.skey[s.j] = w.skey[s.i],
                        !.self.i = s.i + 1, !.self.pc = "key_source_outer",
                        !.last = [ kind |-> "inherit", prev |-> w.skey[s.j] ] ]
        ELSE IF w.skey[s.j] = None
        THEN [ w EXCEPT !.skey[s.j] = s.node_key_counter,
                        !.self.node_key_counter = s.node_key_counter + 1,
                        !.self.j = s.j + 1,
                        !.last = [ kind |-> "fresh", prev |-> w.skey[s.j] ] ]
        ELSE [ w EXCEPT !.self.j = s.j + 1, !.last = NoAssign ]

\* _match_candidate_path: the loops over a and b; True at the first match,
\* None (here FALSE) when the loops run out
RECURSIVE MatchCandidatePathLoop(_, _, _, _)
MatchCandidatePathLoop(candidate_path, tnode, a, b) ==
    IF a > Len(source_path) THEN FALSE
    ELSE IF b > Len(candidate_path)
         THEN MatchCandidatePathLoop(candidate_path, tnode, a + 1, 1)
    ELSE IF MatchesCandidate(source_path[a], candidate_path[b], tnode) THEN TRUE
    ELSE MatchCandidatePathLoop(candidate_path, tnode, a, b + 1)
\* the match tried only between nodes at the same position
MatchCandidatePathAligned(candidate_path, tnode) ==
    \E a \in 1..Len(source_path) :
        /\ a <= Len(candidate_path)
        /\ MatchesCandidate(source_path[a], candidate_path[a], tnode)

MatchCandidatePath(candidate_path, tnode) ==
    MatchCandidatePathLoop(candidate_path, tnode, 1, 1)

\* _match_candidate_paths: the set of the paths that match
MatchCandidatePaths(candidate_paths, tnode) ==
    { p \in SeqToSet(candidate_paths) : MatchCandidatePath(cnodes[p], tnode) }

\* self.matched_candidate_paths = self._match_candidate_paths(candidate_paths)
MatchCandidatePathsStep(w) ==
    LET m == MatchCandidatePaths(w.self.candidate_paths, w.self.tnode)
    IN  [ w EXCEPT !.self.matched_candidate_paths = m, !.self.todo = m,
                   !.self.pc = "key_candidate_next", !.last = NoAssign ]

\* for candidate_path in self.matched_candidate_paths: the next path p of the
\* set, in the order the set yields them
KeyCandidateNextStep(w, p) ==
    [ w EXCEPT !.self.cur = p, !.self.todo = w.self.todo \ { p },
               !.self.i = 1, !.self.j = 1,
               !.self.pc = "key_candidate_scan", !.last = NoAssign ]

\* the end of that loop, and of __init__
KeyCandidatesDoneStep(w) ==
    [ w EXCEPT !.self.pc = "constructed", !.last = NoAssign ]

\* the scan keeping the key of the first matching a
KeyCandidateScanStepFirstWins(w) ==
    LET s == w.self
        n == Len(cnodes[s.cur])
        moved == IF s.j < n THEN [ w EXCEPT !.self.j = s.j + 1 ]
                 ELSE IF s.i < Len(source_path)
                 THEN [ w EXCEPT !.self.i = s.i + 1, !.self.j = 1 ]
                 ELSE [ w EXCEPT !.self.j = 1,
                                 !.self.pc = "key_candidate_fresh" ]
    IN  IF /\ MatchesCandidate(source_path[s.i], cnodes[s.cur][s.j], s.tnode)
           /\ w.ckey[s.cur][s.j] = None
        THEN [ moved EXCEPT !.ckey[s.cur][s.j] = w.skey[s.i],
                            !.last = [ kind |-> "inherit",
                                       prev |-> w.ckey[s.cur][s.j] ] ]
        ELSE [ moved EXCEPT !.last = NoAssign ]

\* _key_candidate_path: one iteration of the loops over a and b
KeyCandidateScanStep(w) ==
    LET s == w.self
        n == Len(cnodes[s.cur])
        moved == IF s.j < n THEN [ w EXCEPT !.self.j = s.j + 1 ]
                 ELSE IF s.i < Len(source_path)
                 THEN [ w EXCEPT !.self.i = s.i + 1, !.self.j = 1 ]
                 ELSE [ w EXCEPT !.self.j = 1,
                                 !.self.pc = "key_candidate_fresh" ]
    IN  IF MatchesCandidate(source_path[s.i], cnodes[s.cur][s.j], s.tnode)
        THEN [ moved EXCEPT !.ckey[s.cur][s.j] = w.skey[s.i],
                            !.last = [ kind |-> "inherit",
                                       prev |-> w.ckey[s.cur][s.j] ] ]
        ELSE [ moved EXCEPT !.last = NoAssign ]

\* the final loop without "self.node_key_counter+=1"
KeyCandidateFreshStepNoIncrement(w) ==
    LET s == w.self
        n == Len(cnodes[s.cur])
        moved == IF s.j < n THEN [ w EXCEPT !.self.j = s.j + 1 ]
                 ELSE [ w EXCEPT !.self.pc = "key_candidate_next" ]
    IN  IF w.ckey[s.cur][s.j] = None
        THEN [ moved EXCEPT !.ckey[s.cur][s.j] = s.node_key_counter,
                            !.last = [ kind |-> "fresh",
                                       prev |-> w.ckey[s.cur][s.j] ] ]
        ELSE [ moved EXCEPT !.last = NoAssign ]

\* _key_candidate_path: one iteration of the final loop over b
KeyCandidateFreshStep(w) ==
    LET s == w.self
        n == Len(cnodes[s.cur])
        moved == IF s.j < n THEN [ w EXCEPT !.self.j = s.j + 1 ]
                 ELSE [ w EXCEPT !.self.pc = "key_candidate_next" ]
    IN  IF w.ckey[s.cur][s.j] = None
        THEN [ moved EXCEPT !.ckey[s.cur][s.j] = s.node_key_counter,
                            !.self.node_key_counter = s.node_key_counter + 1,
                            !.last = [ kind |-> "fresh",
                                       prev |-> w.ckey[s.cur][s.j] ] ]
        ELSE [ moved EXCEPT !.last = NoAssign ]

\* ''.join(path) of one-character keys
RECURSIVE Join(_)
Join(path) == IF path = << >> THEN << >> ELSE << Head(path) >> \o Join(Tail(path))

\* ''.join(path) if len(path) > 1 else path[0]
KeyPathOf(path) == IF Len(path) > 1 THEN Join(path) ELSE << path[1] >>

\* source_key_path() and matched_candidate_key_paths(); order is the order in
\* which the set matched_candidate_paths yields its paths
AccessorsStep(w, order) ==
    [ w EXCEPT
        !.self.result =
            [ source_key_path |-> KeyPathOf(w.skey),
              keyed_paths |-> [ k \in 1..Len(order) |-> KeyPathOf(w.ckey[order[k]]) ],
              matched_paths |-> order ],
        !.self.pc = "returned", !.last = NoAssign ]

\* the orders in which a set can yield its elements
Orders(S) ==
    { q \in [1..Cardinality(S) -> S] : \A x \in S : \E k \in DOMAIN q : q[k] = x }


\* KeyPathGenerator(source_path, candidate_paths) run from start to finish on
\* fresh nodes, followed by the accessors
RECURSIVE RunAlone(_)
RunAlone(w) ==
    CASE w.self.pc = "key_source_outer" -> RunAlone(KeySourceOuterStep(w))
      [] w.self.pc = "key_source_inner" -> RunAlone(KeySourceInnerStep(w))
      [] w.self.pc = "match_candidate_paths" -> RunAlone(MatchCandidatePathsStep(w))
      [] w.self.pc = "key_candidate_next" ->
            IF w.self.todo = {} THEN RunAlone(KeyCandidatesDoneStep(w))
            ELSE RunAlone(KeyCandidateNextStep(w, CHOOSE p \in w.self.todo : TRUE))
      [] w.self.pc = "key_candidate_scan" -> RunAlone(KeyCandidateScanStep(w))
      [] w.self.pc = "key_candidate_fresh" -> RunAlone(KeyCandidateFreshStep(w))
      [] w.self.pc = "constructed" ->
            RunAlone(AccessorsStep(w,
                CHOOSE q \in Orders(w.self.matched_candidate_paths) : TRUE))
      [] OTHER -> w

\* SourceNode.__init__ and CandidateNode.__init__: self.key = None
UnkeyedSource == [ n \in 1..Len(source_path) |-> None ]
UnkeyedCandidates == [ p \in PathIds |-> [ n \in 1..Len(cnodes[p]) |-> None ] ]

\* ---------------------------------------------------------------------------
\* Actions
\* ---------------------------------------------------------------------------
World(g) == [ skey |-> skey, ckey |-> ckey, self |-> gen[g], last |-> last ]

Commit(g, w) ==
    /\ skey' = w.skey
    /\ ckey' = w.ckey
    /\ gen' = [ gen EXCEPT ![g] = w.self ]
    /\ last' = w.last
    /\ UNCHANGED << call, ret, source_path, cnodes >>

KeySourceOuter(g) ==
    /\ gen[g].pc = "key_source_outer"
    /\ Commit(g, KeySourceOuterStep(World(g)))

KeySourceInner(g) ==
    /\ gen[g].pc = "key_source_inner"
    /\ Commit(g, KeySourceInnerStep(World(g)))

MatchCandidates(g) ==
    /\ gen[g].pc = "match_candidate_paths"
    /\ Commit(g, MatchCandidatePathsStep(World(g)))

KeyCandidateNext(g) ==
    /\ gen[g].pc = "key_candidate_next"
    /\ \E p \in gen[g].todo : Commit(g, KeyCandidateNextStep(World(g), p))

KeyCandidatesDone(g) ==
    /\ gen[g].pc = "key_candidate_next"
    /\ gen[g].todo = {}
    /\ Commit(g, KeyCandidatesDoneStep(World(g)))

KeyCandidateScan(g) ==
    /\ gen[g].pc = "key_candidate_scan"
    /\ Commit(g, KeyCandidateScanStep(World(g)))

KeyCandidateFresh(g) ==
    /\ gen[g].pc = "key_candidate_fresh"
    /\ Commit(g, KeyCandidateFreshStep(World(g)))

Accessors(g) ==
    /\ gen[g].pc = "constructed"
    /\ \E order \in Orders(gen[g].matched_candidate_paths) :
          Commit(g, AccessorsStep(World(g), order))

Next ==
    \E g \in Generators :
        \/ KeySourceOuter(g)
        \/ KeySourceInner(g)
        \/ MatchCandidates(g)
        \/ KeyCandidateNext(g)
        \/ KeyCandidatesDone(g)
        \/ KeyCandidateScan(g)
        \/ KeyCandidateFresh(g)
        \/ Accessors(g)

\* ---------------------------------------------------------------------------
\* One generator over fresh nodes
\* ---------------------------------------------------------------------------
NoCall == [ op |-> "none" ]
NoRet == [ done |-> FALSE, value |-> FALSE ]

\* the lists of Path objects a caller passes: the first Path is Path 1, and
\* a list may name the same Path object more than once
CandidateLists == { << 1 >>, << 1, 1 >>, << 1, 2 >> }

Init ==
    /\ call = NoCall
    /\ ret = NoRet
    /\ source_path \in SeqsBetween(SourceNodes, 1, MaxSrcLen)
    /\ skey = UnkeyedSource
    /\ \E c \in CandidateLists :
          /\ cnodes \in [ PathIds -> SeqsBetween(CandidateLabels, 0, MaxCandLen) ]
          /\ \A p \in PathIds \ SeqToSet(c) : cnodes[p] = << >>
          /\ gen = [ g \in Generators |->
                       IF g = 1 THEN NewGenerator(c) ELSE Idle ]
    /\ ckey = UnkeyedCandidates
    /\ last = NoAssign

Spec == Init /\ [][Next]_vars

\* ---------------------------------------------------------------------------
\* Two generators over the same source path, each with its own candidate path
\* ---------------------------------------------------------------------------
InitShared ==
    /\ call = NoCall
    /\ ret = NoRet
    /\ source_path \in SeqsBetween(SourceNodes, 1, MaxSharedLen)
    /\ skey = UnkeyedSource
    /\ cnodes \in [ PathIds -> SeqsBetween(CandidateLabels, 1, MaxSharedLen) ]
    /\ gen = [ g \in Generators |-> NewGenerator(<< g >>) ]
    /\ ckey = UnkeyedCandidates
    /\ last = NoAssign

SpecShared == InitShared /\ [][Next]_vars

\* ---------------------------------------------------------------------------
\* The pure functions, each applied once to inputs drawn from bounded sets
\* ---------------------------------------------------------------------------
NoGenerator ==
    /\ source_path = << >>
    /\ skey = << >>
    /\ cnodes = [ p \in PathIds |-> << >> ]
    /\ ckey = [ p \in PathIds |-> << >> ]
    /\ gen = [ g \in Generators |-> Idle ]
    /\ last = NoAssign

Return(value) ==
    /\ ret.done = FALSE
    /\ ret' = [ done |-> TRUE, value |-> value ]
    /\ UNCHANGED << call, source_path, skey, cnodes, ckey, gen, last >>

SetsUpTo(S, n) == { T \in SUBSET S : Cardinality(T) <= n }

\* SemanticMatcher().match(E, wtarget, tnode)
MatchTerms == { t_cheese, t_milk, t_milks, t_chese, t_cheeses, t_cottage_cheese }
MatchLabels ==
    { L_Empty, L_Cheese, L_Milk, L_MilkAndCheese, L_CottageCheese,
      L_CheesesMilk, L_MilksAndTofu }
Thresholds == { << 1, 2 >>, << 4, 5 >>, << 1, 1 >> }

InitMatch ==
    /\ call \in [ E : SetsUpTo(MatchTerms, MaxTermSet), wtarget : MatchLabels,
                  tnode : Thresholds ]
    /\ ret = NoRet
    /\ NoGenerator

Match == Return(SemanticMatch(call.E, call.wtarget, call.tnode))

SpecMatch == InitMatch /\ [][Match]_vars

\* ExtendedSplitTermSet(wcategory, wparent, Wchildren).split_terms() over the
\* knowledge base kb
CategoryLabels == { L_Cheese, L_MilkAndCheese, L_CheeseAndTofu, L_Tofu }
ParentLabels == { << >>, << L_Dairy >>, << L_Soy >> }
ChildLabels == { L_CottageCheese, L_Bread }

InitSplit ==
    /\ call \in [ wcategory : CategoryLabels, wparent : ParentLabels,
                  Wchildren : SeqsBetween(ChildLabels, 0, MaxChildren),
                  kb : KnowledgeBases ]
    /\ ret = NoRet
    /\ NoGenerator

Split ==
    Return(SplitTerms(call.kb, call.wcategory, call.wparent, call.Wchildren))

SpecSplit == InitSplit /\ [][Split]_vars

\* KeyPathRanker().rank(src, tgt)
KeyPaths == SeqsBetween(0..MaxKeySym, 1, MaxKeyPathLen)

InitRank ==
    /\ call \in [ src : KeyPaths, tgt : KeyPaths ]
    /\ ret = NoRet
    /\ NoGenerator

RankPaths == Return(Rank(call.src, call.tgt))

SpecRank == InitRank /\ [][RankPaths]_vars

\* ---------------------------------------------------------------------------
\* Properties
\* ---------------------------------------------------------------------------
Range(q) == { q[k] : k \in DOMAIN q }
Keyed == { "match_candidate_paths", "key_candidate_next", "key_candidate_scan",
           "key_candidate_fresh", "constructed", "returned" }
Constructed == { "constructed", "returned" }

\* the source nodes that match candidate node n of Path p at the threshold 0.8
MatchingSources(p, n) ==
    { a \in DOMAIN source_path : MatchesCandidate(source_path[a], cnodes[p][n], Tnode) }
\* the candidate nodes of the paths generator g retained
RetainedNodes(g) ==
    UNION { { << p, n >> : n \in DOMAIN cnodes[p] } :
              p \in gen[g].matched_candidate_paths }
\* those among them that match no source node
CandidateOnly(g) == { pn \in RetainedNodes(g) : MatchingSources(pn[1], pn[2]) = {} }

\* C1: once the source path is keyed, every source node has a key, and the
\* keys of two positions are equal exactly when the nodes' extended split
\* term sets are equal; the returned source key path shows the same pattern.
C1_SourceKeysMirrorEquality ==
    gen[1].pc \in Keyed =>
        /\ \A n \in DOMAIN skey : skey[n] # None
        /\ \A m, n \in DOMAIN skey :
              m < n => ( skey[m] = skey[n]
                         <=> source_path[m].split_terms = source_path[n].split_terms )
        /\ gen[1].pc = "returned" => gen[1].result.source_key_path = skey

\* a three-node source path X Y X has been keyed and returned as such
C1_WitnessXYX ==
    /\ gen[1].pc = "returned"
    /\ Len(source_path) = 3
    /\ source_path[1].split_terms = source_path[3].split_terms
    /\ source_path[1].split_terms # source_path[2].split_terms
    /\ gen[1].result.source_key_path[1] = gen[1].result.source_key_path[3]
    /\ gen[1].result.source_key_path[1] # gen[1].result.source_key_path[2]

\* C2: a Path passed as a candidate is in the result of
\* matched_candidate_key_paths, once and paired with its own key path,
\* exactly when some (source node, candidate node) pair matches at 0.8; a
\* Path with no matching pair is not in the result.
C2_RetainedIffSomePairMatches ==
    gen[1].pc = "returned" =>
        \A p \in PathIds :
            LET r == gen[1].result
                at == { k \in DOMAIN r.matched_paths : r.matched_paths[k] = p }
                some == \E n \in DOMAIN cnodes[p] : MatchingSources(p, n) # {}
            IN  IF p \in Range(gen[1].candidate_paths) /\ some
                THEN /\ Cardinality(at) = 1
                     /\ \A k \in at : r.keyed_paths[k] = ckey[p]
                ELSE at = {}

\* the same Path was passed twice and retained once, or one Path was retained
\* and another one dropped
C2_WitnessRetainedAndDropped ==
    /\ gen[1].pc = "returned"
    /\ Len(gen[1].result.matched_paths) = 1
    /\ Len(gen[1].candidate_paths) = 2
    /\ Len(cnodes[gen[1].result.matched_paths[1]]) = 2
    /\ MatchingSources(gen[1].result.matched_paths[1], 1) = {}

C4_TermInsideTargetMatches ==
    ( /\ ret.done
      /\ call.tnode = Tnode
      /\ call.E # {}
      /\ \A e \in call.E : \E t \in SplitComposite(call.wtarget) :
            \E k \in 1..(Len(t) + 1) :
                /\ k + Len(e) - 1 <= Len(t)
                /\ SubSeq(t, k, k + Len(e) - 1) = e )
    => ret.value

\* C5: the extended split term set contains every atomic term of the split
\* category label, whatever the knowledge base answers (and so is not empty).
C5_SplitTermsKeepEveryTerm ==
    ret.done =>
        /\ SplitComposite(call.wcategory) \subseteq ret.value
        /\ ret.value # {}

\* C6: a candidate node of a retained path that matches no source node gets
\* its key from the counter of source keying, and that key differs from every
\* source node's key and from the key of every other such node.
C6_CandidateOnlyKeysAreFresh ==
    \A pn \in CandidateOnly(1) :
        LET k == ckey[pn[1]][pn[2]]
        IN  /\ gen[1].pc \in Constructed => k # None
            /\ k # None =>
                  /\ k < gen[1].node_key_counter
                  /\ k \notin Range(skey)
                  /\ \A qm \in CandidateOnly(1) \ { pn } : ckey[qm[1]][qm[2]] # k

\* two retained paths each hold a keyed node that matches no source node
C6_WitnessTwoPaths ==
    /\ gen[1].pc = "returned"
    /\ \E pn, qm \in CandidateOnly(1) :
          /\ pn[1] # qm[1]
          /\ ckey[pn[1]][pn[2]] # None
          /\ ckey[qm[1]][qm[2]] # None

\* C7 (as stated): no step assigns a key to a node whose key is already set.
C7_KeysAreWriteOnce ==
    last.kind # "none" => last.prev = None

\* C7 (amended): a newly allocated key is assigned only to a node whose key
\* is unset; only a key inherited from an equal or matching source node may
\* replace a key already set.
C7_FreshKeyOnlyIfUnset ==
    last.kind = "fresh" => last.prev = None

\* a candidate node has just been given a newly allocated key
C7_WitnessFreshCandidateKey ==
    /\ last.kind = "fresh"
    /\ gen[1].pc \in { "key_candidate_fresh", "key_candidate_next" }
    /\ Len(source_path) = 3

\* C8: generators that share the source nodes, each with its own counter and
\* candidate path, return what they return when run alone on fresh nodes, and
\* no key of a candidate node that matches no source node is a source key.
C8_SharedSourceAsAlone ==
    ( \A g \in Generators : gen[g].pc = "returned" ) =>
        \A g \in Generators :
            /\ gen[g].result
               = RunAlone([ skey |-> UnkeyedSource, ckey |-> UnkeyedCandidates,
                            self |-> NewGenerator(gen[g].candidate_paths),
                            last |-> NoAssign ]).self.result
            /\ \A pn \in CandidateOnly(g) : ckey[pn[1]][pn[2]] \notin Range(skey)

\* C9: rank(src, tgt) is 1 exactly when src and tgt are the same sequence.
C9_RankOneIffIdentical ==
    ret.done => ( ret.value[1] = ret.value[2] <=> call.src = call.tgt )

\* rank of a key path of three keys against itself has returned 1
C9_WitnessSelfRank ==
    /\ ret.done
    /\ Len(call.src) = 3
    /\ call.src = call.tgt
    /\ call.src[1] # call.src[2]
    /\ ret.value[1] = ret.value[2]

\* C10: after construction every node of a retained path has a key: the key
\* of the last source node that matches it, or, when none matches, a key no
\* source node and no other candidate node holds.
C10_LastMatchingSourceWins ==
    gen[1].pc \in Constructed =>
        \A pn \in RetainedNodes(1) :
            LET k == ckey[pn[1]][pn[2]]
                M == MatchingSources(pn[1], pn[2])
            IN  /\ k # None
                /\ M # {} => k = skey[SetMax(M)]
                /\ M = {} =>
                      /\ k \notin Range(skey)
                      /\ \A qm \in RetainedNodes(1) \ { pn } : ckey[qm[1]][qm[2]] # k

\* a candidate node matched by two source nodes of different keys holds the
\* key of the later one
C10_WitnessTwoMatchingSources ==
    /\ gen[1].pc = "returned"
    /\ \E pn \in RetainedNodes(1) : \E a, b \in MatchingSources(pn[1], pn[2]) :
          /\ a < b
          /\ skey[a] # skey[b]
          /\ b = SetMax(MatchingSources(pn[1], pn[2]))
          /\ ckey[pn[1]][pn[2]] = skey[b]

====
